---- MODULE Spec2Model ----
(***************************************************************************)
(* The retrieval core of the e-discovery platform: the section store       *)
(* (app/storage.py), the TF-IDF insight engine (app/insights.py) and the   *)
(* request handler that drives them (app/main.py).                         *)
(*                                                                         *)
(* Texts are modelled by their tokens.  A section content is a bag of      *)
(* tokens (token -> number of occurrences); a query is a sequence of       *)
(* tokens in which " " stands for a run of whitespace.  Weights are fixed  *)
(* point: idf values in 1/100, normalised vector entries and scores in     *)
(* 1/1000.                                                                 *)
(***************************************************************************)
EXTENDS Integers, Sequences, FiniteSets, TLC

\* ---------------------------------------------------------------- bounds
MaxSections == 2        \* rows the sections table may hold
MaxResultsBound == 2    \* largest configured max_results

\* ------------------------------------------------------------- constants
RelevanceFloor == 50    \* 0.05, in 1/1000
DefaultMaxResults == 3  \* InsightEngine(storage), as app/main.py builds it
One == 1000             \* 1.0, in 1/1000

\* ------------------------------------------------------------ text model
Whitespace == " "
StopWords == {"the"}
\* the tokens section contents are made of, in the vectorizer's (sorted)
\* feature order
TermOrder == <<"the", "x", "y">>

Content(nthe, nx, ny) == [the |-> nthe, x |-> nx, y |-> ny]
cStop == Content(1, 0, 0)     \* only stop words
cX    == Content(1, 1, 0)     \* "the x"
\* x is a small part of it: on its own its similarity to "x" is a hair above
\* 0.05, beside a section that holds x it is below
cEdge == Content(0, 3, 59)
ContentSet == {cStop, cX, cEdge}

\* "z" is a word no section contains
QuerySet == { <<>>, <<Whitespace>>, <<Whitespace, "x", Whitespace>>, <<"y">>,
              <<"x", "y">>, <<"z">>, <<"the">> }

Min(a, b) == IF a <= b THEN a ELSE b

RECURSIVE SumSeq(_)
SumSeq(s) == IF s = <<>> THEN 0 ELSE Head(s) + SumSeq(Tail(s))

RECURSIVE ISqrtIn(_, _, _)
\* largest k in lo..hi-1 with k*k <= n  (lo*lo <= n < hi*hi)
ISqrtIn(n, lo, hi) ==
    IF hi - lo <= 1 THEN lo
    ELSE LET mid == (lo + hi) \div 2
         IN IF mid * mid <= n THEN ISqrtIn(n, mid, hi) ELSE ISqrtIn(n, lo, mid)

ISqrt(n) == ISqrtIn(n, 0, 46340)

\* str.strip(): leading and trailing whitespace removed
RECURSIVE LStrip(_)
LStrip(q) == IF q # <<>> /\ Head(q) = Whitespace THEN LStrip(Tail(q)) ELSE q

RECURSIVE RStrip(_)
RStrip(q) ==
    IF q # <<>> /\ q[Len(q)] = Whitespace THEN RStrip(SubSeq(q, 1, Len(q) - 1)) ELSE q

Strip(q) == RStrip(LStrip(q))

\* occurrences of term t in a query
QueryCount(q, t) == Len(SelectSeq(q, LAMBDA w : w = t))

\* ------------------------------------------- TfidfVectorizer (fixed point)
\* 100 * ln(k) for k = 1..8
LnCenti == <<0, 69, 110, 139, 161, 179, 195, 208>>

SumSquares(v) == SumSeq([k \in DOMAIN v |-> v[k] * v[k]])

\* sklearn normalize(norm="l2"): a row of norm 0 is left as it is
L2Normalize(v) ==
    LET norm == ISqrt(SumSquares(v))
    IN IF norm = 0 THEN v ELSE [k \in DOMAIN v |-> (v[k] * One) \div norm]

NoVectorizer == [state |-> "none", vocabulary |-> <<>>, idf |-> <<>>]
\* TfidfVectorizer(stop_words="english"), not fitted yet
NewVectorizer == [state |-> "unfitted", vocabulary |-> <<>>, idf |-> <<>>]
NoMatrix == [present |-> FALSE, rows |-> <<>>]

\* the features learnt from a corpus: its tokens, stop words removed, sorted
Vocabulary(corpus) ==
    SelectSeq(TermOrder,
              LAMBDA t : t \notin StopWords /\ \E i \in DOMAIN corpus : corpus[i][t] > 0)

DocFreq(corpus, t) == Cardinality({i \in DOMAIN corpus : corpus[i][t] > 0})

\* smooth idf: ln((1 + n) / (1 + df)) + 1
Idf(corpus, t) == LnCenti[1 + Len(corpus)] - LnCenti[1 + DocFreq(corpus, t)] + 100

\* True when fit_transform raises ValueError("empty vocabulary; ...")
EmptyVocabulary(corpus) == Vocabulary(corpus) = <<>>

FittedVectorizer(corpus) ==
    LET vocab == Vocabulary(corpus)
    IN [state |-> "fitted", vocabulary |-> vocab,
        idf |-> [k \in DOMAIN vocab |-> Idf(corpus, vocab[k])]]

\* the tf-idf matrix of the corpus under a fitted vectorizer, one row a section
TfidfRows(vec, corpus) ==
    [i \in DOMAIN corpus |->
        L2Normalize([k \in DOMAIN vec.vocabulary |->
                        corpus[i][vec.vocabulary[k]] * vec.idf[k]])]

\* vectorizer.fit_transform(corpus), for a corpus with a non-empty vocabulary
fit_transform(corpus) ==
    LET vec == FittedVectorizer(corpus)
    IN [vectorizer |-> vec, matrix |-> [present |-> TRUE, rows |-> TfidfRows(vec, corpus)]]

\* vectorizer.transform([query]) raises NotFittedError on an unfitted vectorizer
TransformRaises(vec) == vec.state # "fitted"

\* terms outside the vocabulary are ignored
transform(vec, query) ==
    L2Normalize([k \in DOMAIN vec.vocabulary |->
                    QueryCount(query, vec.vocabulary[k]) * vec.idf[k]])

\* cosine_similarity raises ValueError when the feature counts differ
CosineRaises(query_vec, mat) ==
    \E i \in DOMAIN mat.rows : Len(mat.rows[i]) # Len(query_vec)

Dot(u, v) == SumSeq([k \in DOMAIN u |-> u[k] * v[k]])

\* cosine_similarity(query_vec, matrix).flatten(): one score a matrix row
cosine_similarity(query_vec, mat) ==
    LET qn == L2Normalize(query_vec)
    IN [i \in DOMAIN mat.rows |-> Dot(qn, L2Normalize(mat.rows[i])) \div One]

\* ------------------------------------------------------ DocumentStorage
\* a ParsedDocument, as the parser hands it over: its sections in order,
\* order_index counting from 0
ParsedSections(contents) ==
    [i \in DOMAIN contents |-> [content |-> contents[i], order_index |-> i - 1]]

ParsedDocSet ==
    UNION { { ParsedSections(cs) : cs \in [1..n -> ContentSet] } : n \in 1..MaxSections }

RECURSIVE BatchSections(_)
BatchSections(docs) ==
    IF docs = <<>> THEN 0 ELSE Len(Head(docs)) + BatchSections(Tail(docs))

RECURSIVE Batches(_)
\* the lists of parsed documents that hold at most room sections in all
Batches(room) ==
    {<<>>} \cup UNION { { <<doc>> \o rest : rest \in Batches(room - Len(doc)) } :
                        doc \in {d \in ParsedDocSet : Len(d) <= room} }

BatchesByRoom == [room \in 0..MaxSections |-> Batches(room)]

\* the rows one document adds to the sections table
SectionRows(document_id, doc) ==
    [i \in DOMAIN doc |-> [document_id |-> document_id,
                            content |-> doc[i].content,
                            order_index |-> doc[i].order_index]]

RECURSIVE store_documents(_, _)
\* the tables after store_documents(documents) has committed
store_documents(db, docs) ==
    IF docs = <<>> THEN db
    ELSE LET document_id == db.documents + 1
         IN store_documents([documents |-> document_id,
                             sections |-> db.sections \o SectionRows(document_id, Head(docs))],
                            Tail(docs))

\* ORDER BY d.id, s.order_index
OrderedBefore(a, b) ==
    \/ a.document_id < b.document_id
    \/ a.document_id = b.document_id /\ a.order_index < b.order_index

SectionRecord(row) ==
    [document |-> row.document_id, content |-> row.content, order_index |-> row.order_index]

\* rows of equal key keep their rowid order
fetch_all_sections(db) ==
    LET rows == db.sections
        Rank(i) == 1 + Cardinality({j \in DOMAIN rows :
                        \/ OrderedBefore(rows[j], rows[i])
                        \/ ~OrderedBefore(rows[i], rows[j]) /\ j < i})
    IN [p \in DOMAIN rows |-> SectionRecord(rows[CHOOSE i \in DOMAIN rows : Rank(i) = p])]

\* ---------------------------------------------------------- InsightEngine
NoIndex == [sections |-> <<>>, vectorizer |-> NoVectorizer, matrix |-> NoMatrix]

\* only the section list is looked at
SectionsMissing(idx) == idx.sections = <<>>

\* not self._vectorizer or self._matrix is None or not self._sections
IndexMissing(idx) ==
    \/ idx.vectorizer.state = "none"
    \/ ~idx.matrix.present
    \/ idx.sections = <<>>

\* a failed fetch leaves the previous index in place
FetchFailureKeepsIndex(idx) == idx

\* lines 42-44: the index a failed fetch leaves
IndexAfterFetchFailure(idx) == NoIndex

\* a section list already held is kept: the rebuild serves cached state
CachedSections(idx, fetched) ==
    IF idx.sections # <<>> THEN idx.sections ELSE fetched.sections

\* line 39: what self._sections is assigned when the fetch returns
AssignedSections(idx, fetched) == fetched.sections

\* refresh_index on index idx; fetched is what storage.fetch_all_sections did:
\* [ok |-> FALSE] when it raised, the snapshot otherwise
refresh_index(idx, fetched) ==
    IF ~fetched.ok
    THEN [index |-> IndexAfterFetchFailure(idx), raised |-> FALSE, fetches |-> 1,
          fetch_failed |-> TRUE, build_failed |-> FALSE]
    ELSE LET secs == AssignedSections(idx, fetched)
             corpus == [i \in DOMAIN secs |-> secs[i].content]
         IN IF corpus # <<>>
            THEN IF EmptyVocabulary(corpus)
                 THEN \* fit_transform raises after lines 39 and 49 took effect
                      [index |-> [sections |-> secs,
                                  vectorizer |-> NewVectorizer,
                                  matrix |-> idx.matrix],
                       raised |-> TRUE, fetches |-> 1,
                       fetch_failed |-> FALSE, build_failed |-> TRUE]
                 ELSE LET ft == fit_transform(corpus)
                      IN [index |-> [sections |-> secs,
                                     vectorizer |-> ft.vectorizer,
                                     matrix |-> ft.matrix],
                          raised |-> FALSE, fetches |-> 1,
                          fetch_failed |-> FALSE, build_failed |-> FALSE]
            ELSE [index |-> [sections |-> secs,
                             vectorizer |-> NoVectorizer,
                             matrix |-> NoMatrix],
                  raised |-> FALSE, fetches |-> 1,
                  fetch_failed |-> FALSE, build_failed |-> FALSE]

\* zip(self._sections, scores): as long as the shorter of the two
Zip(secs, scores) ==
    [i \in 1..Min(Len(secs), Len(scores)) |-> [section |-> secs[i], score |-> scores[i]]]

\* the pairs are left in fetch order
Unsorted(pairs) == pairs

\* an ascending sort turned round: equal scores come out in reverse fetch order
AscendingReversed(pairs) ==
    LET Rank(i) == 1 + Cardinality({j \in DOMAIN pairs :
                        \/ pairs[j].score > pairs[i].score
                        \/ pairs[j].score = pairs[i].score /\ j > i})
    IN [p \in DOMAIN pairs |-> pairs[CHOOSE i \in DOMAIN pairs : Rank(i) = p]]

\* sorted(..., key=score, reverse=True): descending, equal scores keep their order
SortedByScore(pairs) ==
    LET Rank(i) == 1 + Cardinality({j \in DOMAIN pairs :
                        \/ pairs[j].score > pairs[i].score
                        \/ pairs[j].score = pairs[i].score /\ j < i})
    IN [p \in DOMAIN pairs |-> pairs[CHOOSE i \in DOMAIN pairs : Rank(i) = p]]

\* ranked[: max_results]
Take(seq, n) == SubSeq(seq, 1, Min(n, Len(seq)))

\* nothing is dropped
NeverBelowFloor(score) == FALSE

\* if score < 0.05: continue
BelowFloor(score) == score < RelevanceFloor

build_citation(section) == [title |-> section.document, path |-> section.document]

MakeInsight(pair) ==
    LET citation == build_citation(pair.section)
        snippet == pair.section.content
    IN [answer |-> <<citation, snippet>>, citation |-> citation,
        snippet |-> snippet, score |-> pair.score]

\* lines 70-81: rank, cut to max_results, drop what is below the floor
Insights(secs, scores, cap) ==
    LET ranked == SortedByScore(Zip(secs, scores))
        kept == SelectSeq(Take(ranked, cap), LAMBDA pair : ~BelowFloor(pair.score))
    IN [i \in DOMAIN kept |-> MakeInsight(kept[i])]

Returned(idx, result, fetches) ==
    [index |-> idx, raised |-> FALSE, result |-> result, fetches |-> fetches]

\* the section list is sorted in place, the matrix rows stay where they were
SortsSectionsInPlace(idx, scores) ==
    LET ranked == SortedByScore(Zip(idx.sections, scores))
    IN [idx EXCEPT !.sections = [p \in DOMAIN ranked |-> ranked[p].section]]

\* lines 70-72: sorted() ranks a copy, the index is only read
IndexAfterScoring(idx, scores) == idx

\* lines 64-81, on the index as it is after the lazy refresh
Score(idx, cap, query, fetches) ==
    IF TransformRaises(idx.vectorizer)
    THEN Returned(idx, <<>>, fetches)
    ELSE LET query_vec == transform(idx.vectorizer, query)
         IN IF CosineRaises(query_vec, idx.matrix)
            THEN Returned(idx, <<>>, fetches)
            ELSE LET scores == cosine_similarity(query_vec, idx.matrix)
                 IN Returned(IndexAfterScoring(idx, scores),
                             Insights(idx.sections, scores, cap),
                             fetches)

\* the query is not stripped before the test
BlankUnstripped(query) == query = <<>>

\* if not query.strip()
Blank(query) == Strip(query) = <<>>

\* answer_query(query) on index idx with max_results cap; fetched is what
\* storage.fetch_all_sections does if it is called
answer_query(idx, cap, query, fetched) ==
    IF Blank(query) THEN Returned(idx, <<>>, 0)
    ELSE IF IndexMissing(idx)
         THEN LET r == refresh_index(idx, fetched)
              IN IF r.raised
                 THEN [index |-> r.index, raised |-> TRUE, result |-> <<>>,
                       fetches |-> r.fetches]
                 ELSE IF IndexMissing(r.index)
                      THEN Returned(r.index, <<>>, r.fetches)
                      ELSE Score(r.index, cap, query, r.fetches)
         ELSE Score(idx, cap, query, 0)

\* ------------------------------------------------------------------ state
VARIABLES
    db,           \* the SQLite tables: documents (a row count) and sections
    max_results,  \* InsightEngine.max_results
    sections,     \* InsightEngine._sections
    vectorizer,   \* InsightEngine._vectorizer
    matrix,       \* InsightEngine._matrix
    last,         \* the call that ended last, and how it ended
    rpc,          \* where the request thread that runs refresh_index stands
    rloc,         \* its locals
    qpc,          \* where the request thread that runs answer_query stands
    qloc          \* its locals, and what it read from the engine

vars == <<db, max_results, sections, vectorizer, matrix, last, rpc, rloc, qpc, qloc>>
threads == <<rpc, rloc, qpc, qloc>>

Index == [sections |-> sections, vectorizer |-> vectorizer, matrix |-> matrix]

\* what a call of storage.fetch_all_sections does: it raises or returns the snapshot
Fetch(ok) == [ok |-> ok, sections |-> IF ok THEN fetch_all_sections(db) ELSE <<>>]

NoCall ==
    [op |-> "init", query |-> <<>>, stored |-> FALSE, added |-> 0, had_index |-> FALSE,
     raised |-> FALSE, fetches |-> 0, fetch_failed |-> FALSE, build_failed |-> FALSE,
     result |-> <<>>, repeat |-> FALSE]

\* corpus: line 47's local; own: self._vectorizer is still the object this
\* call created at line 49
NoRefreshLocals == [corpus |-> <<>>, own |-> FALSE]

NoQueryLocals ==
    [query |-> <<>>, query_vec |-> <<>>, scores |-> <<>>,
     seen_vectorizer |-> NoVectorizer, seen_matrix |-> NoMatrix, seen_sections |-> <<>>,
     result |-> <<>>, ranked |-> FALSE]

Constructed ==
    /\ db = [documents |-> 0, sections |-> <<>>]
    /\ sections = <<>>
    /\ vectorizer = NoVectorizer
    /\ matrix = NoMatrix
    /\ last = NoCall
    /\ rpc = "idle" /\ rloc = NoRefreshLocals
    /\ qpc = "idle" /\ qloc = NoQueryLocals

\* InsightEngine(storage, max_results) on a store with its schema just created
Init == Constructed /\ max_results \in 1..MaxResultsBound

SetIndex(idx) ==
    /\ sections' = idx.sections
    /\ vectorizer' = idx.vectorizer
    /\ matrix' = idx.matrix

\* the document lists the sections table has room for
Room == BatchesByRoom[MaxSections - Len(db.sections)]

\* storage.store_documents(documents), called on its own; a failure rolls back
StoreDocuments ==
    \E docs \in Room, ok \in BOOLEAN :
        /\ db' = IF ok THEN store_documents(db, docs) ELSE db
        /\ last' = [NoCall EXCEPT !.op = "store", !.stored = ok,
                                  !.added = IF ok THEN BatchSections(docs) ELSE 0,
                                  !.had_index = ~IndexMissing(Index)]
        /\ UNCHANGED <<max_results, sections, vectorizer, matrix, threads>>

\* insights.refresh_index()
RefreshIndex ==
    \E ok \in BOOLEAN :
        \E r \in {refresh_index(Index, Fetch(ok))} :
           /\ SetIndex(r.index)
           /\ last' = [NoCall EXCEPT !.op = "refresh",
                                     !.had_index = ~IndexMissing(Index),
                                     !.raised = r.raised, !.fetches = r.fetches,
                                     !.fetch_failed = r.fetch_failed,
                                     !.build_failed = r.build_failed]
           /\ UNCHANGED <<db, max_results, threads>>

\* insights.answer_query(query); the store's behaviour is drawn only where the
\* call reaches storage.fetch_all_sections.  last.repeat: the call before was
\* answer_query with the same text, and it returned
AnswerQuery ==
    \E query \in QuerySet :
      \E ok \in (IF Blank(query) \/ ~IndexMissing(Index) THEN {TRUE} ELSE BOOLEAN) :
        \E r \in {answer_query(Index, max_results, query, Fetch(ok))} :
           /\ SetIndex(r.index)
           /\ last' = [NoCall EXCEPT !.op = "query", !.query = query,
                                     !.had_index = ~IndexMissing(Index),
                                     !.raised = r.raised, !.fetches = r.fetches,
                                     !.fetch_failed = (r.fetches > 0 /\ ~ok),
                                     !.result = r.result,
                                     !.repeat = (last.op = "query" /\ ~last.raised
                                                 /\ last.query = query)]
           /\ UNCHANGED <<db, max_results, threads>>

\* the collect and upload branches of index(): store_documents, then
\* refresh_index; an exception of either ends the branch
Ingest(op, docs, store_ok, fetch_ok) ==
    /\ db' = IF store_ok THEN store_documents(db, docs) ELSE db
    /\ \E r \in {refresh_index(Index,
                    [ok |-> fetch_ok,
                     sections |-> IF fetch_ok THEN fetch_all_sections(db') ELSE <<>>])} :
          IF store_ok
          THEN /\ SetIndex(r.index)
               /\ last' = [NoCall EXCEPT !.op = op, !.stored = TRUE,
                                         !.added = BatchSections(docs),
                                         !.had_index = ~IndexMissing(Index),
                                         !.raised = r.raised, !.fetches = r.fetches,
                                         !.fetch_failed = r.fetch_failed,
                                         !.build_failed = r.build_failed]
          ELSE /\ UNCHANGED <<sections, vectorizer, matrix>>
               /\ last' = [NoCall EXCEPT !.op = op, !.had_index = ~IndexMissing(Index)]
    /\ UNCHANGED <<max_results, threads>>

IndexCollect ==
    \E docs \in Room, store_ok \in BOOLEAN :
      \E fetch_ok \in (IF store_ok THEN BOOLEAN ELSE {TRUE}) :
        Ingest("collect", docs, store_ok, fetch_ok)

\* one file: parse_documents gives one document, or none for an unsupported suffix
IndexUpload ==
    \E docs \in {b \in Room : Len(b) <= 1}, store_ok \in BOOLEAN :
      \E fetch_ok \in (IF store_ok THEN BOOLEAN ELSE {TRUE}) :
        Ingest("upload", docs, store_ok, fetch_ok)

Next == StoreDocuments \/ RefreshIndex \/ AnswerQuery \/ IndexCollect \/ IndexUpload

Spec == Init /\ [][Next]_vars

\* ------------------------------------------- the engine under two threads
\* app/main.py builds one engine for the process; a threaded server runs index()
\* for two requests at once.  One thread stores documents and runs
\* refresh_index, the other runs answer_query; a step is one statement.  The
\* refresh a query triggers at line 61 is taken in one step.

ConcQuerySet == { <<Whitespace>>, <<Whitespace, "x", Whitespace>>, <<"y">> }

\* storage.store_documents in the collect or upload branch, before refresh_index
T_Store ==
    /\ rpc = "idle"
    /\ \E docs \in {b \in Room : Len(b) = 1} : db' = store_documents(db, docs)
    /\ UNCHANGED <<max_results, sections, vectorizer, matrix, last, threads>>

\* line 39: self._sections = self.storage.fetch_all_sections(), or its exception
R_Fetch ==
    /\ rpc = "idle"
    /\ \E ok \in BOOLEAN :
          IF ok THEN /\ sections' = AssignedSections(Index, Fetch(TRUE))
                     /\ rpc' = "l47"
                ELSE /\ rpc' = "l42"
                     /\ UNCHANGED sections
    /\ UNCHANGED <<db, max_results, vectorizer, matrix, last, rloc, qpc, qloc>>

\* lines 42-44: the three assignments of the except branch
R_ClearSections ==
    /\ rpc = "l42"
    /\ sections' = <<>>
    /\ rpc' = "l43"
    /\ UNCHANGED <<db, max_results, vectorizer, matrix, last, rloc, qpc, qloc>>

R_ClearVectorizer ==
    /\ rpc \in {"l43", "l53"}
    /\ vectorizer' = NoVectorizer
    /\ rpc' = IF rpc = "l43" THEN "l44" ELSE "l54"
    /\ UNCHANGED <<db, max_results, sections, matrix, last, rloc, qpc, qloc>>

R_ClearMatrix ==
    /\ rpc \in {"l44", "l54"}
    /\ matrix' = NoMatrix
    /\ rpc' = "idle"
    /\ rloc' = NoRefreshLocals
    /\ UNCHANGED <<db, max_results, sections, vectorizer, last, qpc, qloc>>

\* lines 47-48: corpus = [section.content for section in self._sections]
R_Corpus ==
    /\ rpc = "l47"
    /\ rloc' = [rloc EXCEPT !.corpus = [i \in DOMAIN sections |-> sections[i].content]]
    /\ rpc' = IF sections # <<>> THEN "l49" ELSE "l53"
    /\ UNCHANGED <<db, max_results, sections, vectorizer, matrix, last, qpc, qloc>>

\* line 49: self._vectorizer = TfidfVectorizer(stop_words="english")
R_NewVectorizer ==
    /\ rpc = "l49"
    /\ vectorizer' = NewVectorizer
    /\ rloc' = [rloc EXCEPT !.own = TRUE]
    /\ rpc' = "l50"
    /\ UNCHANGED <<db, max_results, sections, matrix, last, qpc, qloc>>

\* line 50, the call: fit_transform fits the vectorizer object in place, or raises
R_Fit ==
    /\ rpc = "l50"
    /\ IF EmptyVocabulary(rloc.corpus)
       THEN /\ rpc' = "idle"
            /\ rloc' = NoRefreshLocals
            /\ UNCHANGED vectorizer
       ELSE /\ rpc' = "l50_assign"
            /\ vectorizer' = IF rloc.own THEN FittedVectorizer(rloc.corpus) ELSE vectorizer
            /\ UNCHANGED rloc
    /\ UNCHANGED <<db, max_results, sections, matrix, last, qpc, qloc>>

\* line 50, the assignment: self._matrix = <the matrix fit_transform returned>
R_AssignMatrix ==
    /\ rpc = "l50_assign"
    /\ matrix' = fit_transform(rloc.corpus).matrix
    /\ rpc' = "idle"
    /\ rloc' = NoRefreshLocals
    /\ UNCHANGED <<db, max_results, sections, vectorizer, last, qpc, qloc>>

QueryReturns(result) ==
    /\ qpc' = "idle"
    /\ qloc' = [qloc EXCEPT !.result = result]

\* lines 58-59
Q_Call ==
    /\ qpc = "idle"
    /\ \E query \in ConcQuerySet :
          IF Blank(query)
          THEN /\ qpc' = "idle"
               /\ qloc' = [NoQueryLocals EXCEPT !.query = query]
          ELSE /\ qpc' = "l60"
               /\ qloc' = [NoQueryLocals EXCEPT !.query = query]
    /\ UNCHANGED <<db, max_results, sections, vectorizer, matrix, last, rpc, rloc>>

\* lines 60-61: the guard and, where it holds, the whole of refresh_index
Q_Guard ==
    /\ qpc = "l60"
    /\ IF IndexMissing(Index)
       THEN \E ok \in BOOLEAN : \E r \in {refresh_index(Index, Fetch(ok))} :
               /\ SetIndex(r.index)
               /\ rloc' = [rloc EXCEPT !.own = FALSE]
               /\ IF r.raised THEN QueryReturns(<<>>)
                              ELSE qpc' = "l62" /\ UNCHANGED qloc
       ELSE /\ qpc' = "l62"
            /\ UNCHANGED <<sections, vectorizer, matrix, rloc, qloc>>
    /\ UNCHANGED <<db, max_results, last, rpc>>

\* lines 62-63
Q_Recheck ==
    /\ qpc = "l62"
    /\ IF IndexMissing(Index) THEN QueryReturns(<<>>)
                              ELSE qpc' = "l65" /\ UNCHANGED qloc
    /\ UNCHANGED <<db, max_results, sections, vectorizer, matrix, last, rpc, rloc>>

\* line 65: query_vec = self._vectorizer.transform([query]); an exception (None,
\* or a vectorizer not fitted) is caught at line 67
Q_Transform ==
    /\ qpc = "l65"
    /\ IF TransformRaises(vectorizer)
       THEN QueryReturns(<<>>)
       ELSE /\ qpc' = "l66"
            /\ qloc' = [qloc EXCEPT !.query_vec = transform(vectorizer, qloc.query),
                                    !.seen_vectorizer = vectorizer]
    /\ UNCHANGED <<db, max_results, sections, vectorizer, matrix, last, rpc, rloc>>

\* line 66: scores = cosine_similarity(query_vec, self._matrix).flatten()
Q_Cosine ==
    /\ qpc = "l66"
    /\ IF ~matrix.present \/ CosineRaises(qloc.query_vec, matrix)
       THEN QueryReturns(<<>>)
       ELSE /\ qpc' = "l70"
            /\ qloc' = [qloc EXCEPT !.scores = cosine_similarity(qloc.query_vec, matrix),
                                    !.seen_matrix = matrix]
    /\ UNCHANGED <<db, max_results, sections, vectorizer, matrix, last, rpc, rloc>>

\* lines 70-81: rank zip(self._sections, scores), cut, filter, format, return
Q_Rank ==
    /\ qpc = "l70"
    /\ qpc' = "idle"
    /\ qloc' = [qloc EXCEPT !.seen_sections = sections, !.ranked = TRUE,
                            !.result = Insights(sections, qloc.scores, max_results)]
    /\ UNCHANGED <<db, max_results, sections, vectorizer, matrix, last, rpc, rloc>>

ConcInit == Constructed /\ max_results = DefaultMaxResults

ConcNext ==
    \/ T_Store
    \/ R_Fetch \/ R_ClearSections \/ R_ClearVectorizer \/ R_ClearMatrix
    \/ R_Corpus \/ R_NewVectorizer \/ R_Fit \/ R_AssignMatrix
    \/ Q_Call \/ Q_Guard \/ Q_Recheck \/ Q_Transform \/ Q_Cosine \/ Q_Rank

ConcSpec == ConcInit /\ [][ConcNext]_vars


\* ================================================================ claims
RefreshOps == {"refresh", "collect", "upload"}

\* a refresh_index call ran to its end or to its exception in the last call
Refreshed == last.op \in RefreshOps /\ last.fetches > 0

OnlyWhitespace(query) == \A i \in DOMAIN query : query[i] = Whitespace

IndexEmpty == sections = <<>> /\ vectorizer.state = "none" /\ ~matrix.present

IndexEmptyOrAbsent == sections = <<>> \/ vectorizer.state = "none" \/ ~matrix.present

\* C1: answer_query never raises to its caller, and returns the empty list
\* whenever a step of it failed.
C1_AnswerQueryNeverRaises ==
    last.op = "query" =>
        /\ ~last.raised
        /\ last.fetch_failed => last.result = <<>>

\* C2: refresh_index never raises to its caller, whichever step fails.
C2_RefreshIndexNeverRaises == Refreshed => ~last.raised

\* C3: when storage.fetch_all_sections fails during refresh_index, the index is
\* reset to empty whatever it held before: no sections, no vectorizer, no matrix.
C3_FetchFailureClearsIndex == last.fetch_failed => IndexEmpty

C3_Witness == last.op = "refresh" /\ last.fetch_failed /\ last.had_index /\ IndexEmpty

\* the query and the section share a term of the index's vocabulary
SharesTerm(query, content) ==
    \E k \in DOMAIN vectorizer.vocabulary :
        /\ content[vectorizer.vocabulary[k]] > 0
        /\ \E i \in DOMAIN query : query[i] = vectorizer.vocabulary[k]

\* C4: no insight answer_query returns has a score below 0.05, and none is drawn
\* from a section that shares no in-vocabulary term with the query.
C4_RelevanceFloor ==
    last.op = "query" =>
        \A i \in DOMAIN last.result :
            /\ last.result[i].score >= RelevanceFloor
            /\ SharesTerm(last.query, last.result[i].snippet)

\* an insight of score exactly 0.05 is returned while a section that would fit
\* under the cap is left out
C4_Witness ==
    /\ last.op = "query"
    /\ \E i \in DOMAIN last.result : last.result[i].score = RelevanceFloor
    /\ Len(last.result) < Min(max_results, Len(sections))

\* the scores of the last query against the index it ran on
LastScores == cosine_similarity(transform(vectorizer, last.query), matrix)

Scored == last.op = "query" /\ ~OnlyWhitespace(last.query) /\ ~last.raised
          /\ ~IndexEmptyOrAbsent /\ vectorizer.state = "fitted"

Qualifying(scores) == {i \in DOMAIN scores : scores[i] >= RelevanceFloor}

\* the specified order of steps: drop what is below the floor, then cut
FloorThenCap(secs, scores, cap) ==
    LET kept == SelectSeq(SortedByScore(Zip(secs, scores)),
                          LAMBDA pair : pair.score >= RelevanceFloor)
        cut == Take(kept, cap)
    IN [i \in DOMAIN cut |-> MakeInsight(cut[i])]

\* C5: answer_query returns exactly min(max_results, sections of score >= 0.05)
\* insights, the highest-scoring ones in ranking order: cutting to max_results
\* and then dropping scores below 0.05 gives what dropping and then cutting gives.
C5_ResultCap ==
    Scored =>
        /\ Len(last.result) = Min(max_results, Cardinality(Qualifying(LastScores)))
        /\ last.result = FloorThenCap(sections, LastScores, max_results)
        /\ \A i \in DOMAIN last.result :
              Cardinality({j \in DOMAIN LastScores :
                              LastScores[j] > last.result[i].score}) < i

\* the cap binds: more sections qualify than are returned
C5_Witness ==
    /\ Scored
    /\ Len(last.result) = max_results
    /\ Cardinality(Qualifying(LastScores)) > max_results

\* C6: an empty or whitespace-only query returns the empty list without a
\* rebuild: no fetch, and sections, vectorizer and matrix unchanged.
C6_BlankQueryNoRebuild ==
    [][(last'.op = "query" /\ OnlyWhitespace(last'.query)) =>
          /\ last'.result = <<>>
          /\ ~last'.raised
          /\ last'.fetches = 0
          /\ UNCHANGED <<sections, vectorizer, matrix>>]_vars

\* a whitespace-only query on an empty index while the store holds sections
C6_Witness ==
    /\ last.op = "query" /\ last.query = <<Whitespace>>
    /\ last.result = <<>> /\ last.fetches = 0
    /\ IndexEmpty /\ db.sections # <<>>

\* C7: a non-blank query on an empty or absent index makes exactly one fetch,
\* and returns the empty list if the store was empty or the fetch failed; on a
\* built index it makes none.
C7_LazyRefresh ==
    [][(last'.op = "query" /\ ~OnlyWhitespace(last'.query)) =>
          IF IndexEmptyOrAbsent
          THEN /\ last'.fetches = 1
               /\ (last'.fetch_failed \/ db.sections = <<>>) =>
                      (~last'.raised /\ last'.result = <<>> /\ IndexEmpty')
          ELSE /\ last'.fetches = 0
               /\ UNCHANGED <<sections, vectorizer, matrix>>]_vars

C7_Witness ==
    /\ last.op = "query" /\ ~OnlyWhitespace(last.query)
    /\ ~last.had_index /\ last.fetches = 1 /\ ~last.raised
    /\ IndexEmpty /\ last.result = <<>>

\* the index is built from one snapshot: a fitted vectorizer and one vector a
\* section, each computed from the content of the section at its position
IndexBuilt ==
    LET corpus == [i \in DOMAIN sections |-> sections[i].content]
    IN /\ sections # <<>>
       /\ vectorizer.state = "fitted"
       /\ matrix.present
       /\ Len(matrix.rows) = Len(sections)
       /\ vectorizer = FittedVectorizer(corpus)
       /\ matrix.rows = TfidfRows(vectorizer, corpus)

\* C8: after every refresh_index call ends, the index is entirely empty or
\* entirely built from one fetched snapshot.
C8_AtomicRebuild == Refreshed => (IndexEmpty \/ IndexBuilt)

\* the sections are the rows of the table, by document and then order_index
SnapshotOfStore ==
    /\ Len(sections) = Len(db.sections)
    /\ \A j \in DOMAIN db.sections : \E i \in DOMAIN sections :
          /\ sections[i].document = db.sections[j].document_id
          /\ sections[i].order_index = db.sections[j].order_index
          /\ sections[i].content = db.sections[j].content
    /\ \A i, j \in DOMAIN sections :
          i < j => \/ sections[i].document < sections[j].document
                   \/ /\ sections[i].document = sections[j].document
                      /\ sections[i].order_index < sections[j].order_index

\* C10: after documents are stored and refresh_index then succeeds, the index's
\* sections are the store's current snapshot in fetch order; the collect and
\* upload handlers call refresh_index after every store_documents.
C10_StaleIndexRecovery ==
    /\ (Refreshed /\ ~last.raised /\ ~last.fetch_failed) => SnapshotOfStore
    /\ (last.op \in {"collect", "upload"} /\ last.stored) => last.fetches = 1

\* a handler added sections to a store whose index was built, and the index
\* holds them together with the older ones
C10_Witness ==
    /\ last.op \in {"collect", "upload"} /\ last.stored /\ last.added > 0
    /\ last.had_index /\ ~last.raised /\ ~last.fetch_failed
    /\ IndexBuilt /\ SnapshotOfStore
    /\ Len(sections) > last.added

\* what one query read belongs to one build: the vectorizer it transformed with
\* and the matrix it scored against were both built from the sections it ranked
ReadOneBuild ==
    LET corpus == [i \in DOMAIN qloc.seen_sections |-> qloc.seen_sections[i].content]
    IN /\ qloc.seen_vectorizer = FittedVectorizer(corpus)
       /\ qloc.seen_matrix.rows = TfidfRows(qloc.seen_vectorizer, corpus)

\* C9: an answer_query that runs while another request runs refresh_index never
\* observes a partially rebuilt index: the sections, vectorizer and matrix it
\* reads belong to the same build.
C9_NoPartialIndexObserved == qloc.ranked => ReadOneBuild

\* C11: with the corpus unchanged and no refresh in between, a second
\* answer_query with the same text returns the results and scores of the first,
\* in the same order; a query on a built index leaves sections, vectorizer and
\* matrix as they were.
C11_Determinism ==
    [][(last'.op = "query" /\ ~IndexEmptyOrAbsent) =>
          /\ UNCHANGED <<sections, vectorizer, matrix>>
          /\ last'.fetches = 0
          /\ (last.op = "query" /\ ~last.raised /\ last'.query = last.query) =>
                (~last'.raised /\ last'.result = last.result)]_vars

\* the same text asked twice on a built index, with insights returned
C11_Witness ==
    /\ last.op = "query" /\ last.repeat /\ last.had_index
    /\ last.fetches = 0 /\ last.result # <<>>

\* the sections are in fetch order: by document, then by order_index
SectionsInFetchOrder ==
    \A i, j \in DOMAIN sections :
        i < j => \/ sections[i].document < sections[j].document
                 \/ /\ sections[i].document = sections[j].document
                    /\ sections[i].order_index <= sections[j].order_index

\* pos gives, for each returned insight, the position of a section it is drawn
\* from, such that scores do not increase and equal scores keep their positions
RankedBy(pos) ==
    /\ \A i \in DOMAIN last.result :
          last.result[i] = MakeInsight([section |-> sections[pos[i]],
                                        score |-> LastScores[pos[i]]])
    /\ \A i, j \in DOMAIN last.result :
          i < j => \/ last.result[i].score > last.result[j].score
                   \/ /\ last.result[i].score = last.result[j].score
                      /\ pos[i] < pos[j]

\* C12: the insights answer_query returns are in non-increasing order of score,
\* and sections of equal score appear in their fetch order (document insertion
\* order, then order_index), although the sort is done with reverse=True.
C12_RankingOrder ==
    Scored =>
        /\ SectionsInFetchOrder
        /\ \E pos \in [DOMAIN last.result -> DOMAIN sections] : RankedBy(pos)

\* two sections of different documents tie and are both returned
C12_Witness ==
    /\ Scored
    /\ Len(last.result) >= 2
    /\ last.result[1].score = last.result[2].score
    /\ last.result[1].citation.title < last.result[2].citation.title

====
